---- MODULE Spec2Model ----
(***************************************************************************)
(* Model of static/js/app.js: the F1UndercutApp cascading selection        *)
(* controller.  The session fields of the object live in `app`, the DOM    *)
(* elements the code reads and writes live in `dom`, the fetch requests    *)
(* whose promise has not settled yet live in `net`, and the pending        *)
(* setTimeout callbacks of showError are queued in `timers`.               *)
(*                                                                         *)
(* JavaScript is single threaded: every event handler runs to its first    *)
(* await, and every continuation after an await runs to the end (or to the *)
(* next await) without interleaving.  Each action below is one such run.   *)
(***************************************************************************)
EXTENDS Integers, Sequences, FiniteSets, Bags, TLC

VARIABLES app, dom, net, timers

vars == <<app, dom, net, timers>>

----------------------------------------------------------------------------
(* Bounds of the model *)

\* requests that may await their response at the same time (SpecRace)
MaxInFlight == 2
\* setTimeout callbacks of showError that may be pending at the same time
\* (Spec, SpecTimed, SpecEager)
MaxTimers == 2
\* the same (SpecRace)
MaxRaceTimers == 1

----------------------------------------------------------------------------
(* JavaScript values *)

\* prediction requests that may await their response at the same time
\* (SpecEager)
MaxPredicts == 2

\* setTimeout(..., 5000): the delay of the callback that removes an error, in
\* units of 1000 ms
ErrorDelay == 5

\* null, as distinct from the empty string
NULL == "null"

\* this.currentLap = null; (null, like 0 and NaN, is falsy)
NoLap == 0

\* truthiness of a string-or-null value: if (this.currentYear) ...
Truthy(v) == v # NULL /\ v # ""

\* truthiness of this.currentLap
TruthyLap(l) == l # NoLap

\* the first element of a list, which is its minimum only when it is sorted
SeqFirst(s) == Head(s)

RECURSIVE SeqMin(_)
\* Math.min(...s) of a non-empty list
SeqMin(s) ==
    IF Len(s) = 1 THEN Head(s)
    ELSE LET m == SeqMin(Tail(s)) IN IF Head(s) < m THEN Head(s) ELSE m

RECURSIVE SeqMax(_)
\* Math.max(...s) of a non-empty list
SeqMax(s) ==
    IF Len(s) = 1 THEN Head(s)
    ELSE LET m == SeqMax(Tail(s)) IN IF Head(s) > m THEN Head(s) ELSE m

\* the set of the elements of a list
Range(s) == {s[i] : i \in DOMAIN s}

\* what a control holds after `control.value = v`: a <select> without such an
\* option shows no selection and reads back as ""
SetSelectValue(select, v) ==
    [select EXCEPT !.value = IF v \in select.options \/ v = "" THEN v ELSE ""]

\* what <input type=range> holds after `slider.value = v`: clamped to [min, max]
SetSliderValue(slider, v) ==
    [slider EXCEPT !.value = IF v < slider.min THEN slider.min
                             ELSE IF v > slider.max /\ slider.max >= slider.min
                                  THEN slider.max
                                  ELSE IF v > slider.max THEN slider.min ELSE v]

----------------------------------------------------------------------------
(* The collaborator behind /api: the values the page offers and the        *)
(* responses the server may give                                           *)

\* the options of #yearSelect ("" is its placeholder option)
YearOptions == {"", "2023"}

\* a request: the URL (or body) fetch() was called with
Req(kind, year, round, lap, chaser, defender) ==
    [kind |-> kind, year |-> year, round |-> round, lap |-> lap,
     chaser |-> chaser, defender |-> defender]

\* GET /api/events/{year}: the promise rejects (network error, body that is
\* no JSON), or the body is null, or it is an object with or without events
EventsResponses ==
    { [status |-> "reject", events |-> <<>>],
      [status |-> "null",   events |-> <<>>],
      [status |-> "nokey",  events |-> <<>>],
      [status |-> "ok",     events |-> <<>>],
      [status |-> "ok",     events |-> <<"1", "2">>] }

\* GET /api/laps/{year}/{round}
LapsResponses ==
    { [status |-> "reject", laps |-> <<>>],
      [status |-> "null",   laps |-> <<>>],
      [status |-> "nokey",  laps |-> <<>>],
      [status |-> "ok",     laps |-> <<>>],
      [status |-> "ok",     laps |-> <<-1, 0>>],
      [status |-> "ok",     laps |-> <<-1, 0, 1, 2>>],
      [status |-> "ok",     laps |-> <<2>>] }

\* the running order the server holds for a lap of a race (driver codes in
\* position order)
StandingsData(year, round, lap) ==
    IF lap = 1 THEN <<"A", "B">>
    ELSE IF round = "1" THEN <<"B">>
    ELSE <<>>

\* GET /api/standings/{year}/{round}/{lap}
StandingsResponses(req) ==
    { [status |-> "reject", standings |-> <<>>],
      [status |-> "null",   standings |-> <<>>],
      [status |-> "nokey",  standings |-> <<>>],
      [status |-> "ok",     standings |-> StandingsData(req.year, req.round, req.lap)] }

\* POST /api/predict: rejected promise, or a status (ok = 2xx) with a body
\* that is null, or an object with or without an `error` text
PredictResponses ==
    { [status |-> "reject", ok |-> FALSE, data |-> "none"],
      [status |-> "settled", ok |-> TRUE,  data |-> "null"],
      [status |-> "settled", ok |-> TRUE,  data |-> "result"],
      [status |-> "settled", ok |-> FALSE, data |-> "null"],
      [status |-> "settled", ok |-> FALSE, data |-> "error"],
      [status |-> "settled", ok |-> FALSE, data |-> "noerror"] }

----------------------------------------------------------------------------
(* The state a handler works on, as one record *)

World == [app |-> app, dom |-> dom, net |-> net, timers |-> timers]

\* const response = await fetch(url): the request leaves, the caller suspends
fetch(w, req) ==
    [w EXCEPT !.net = @ (+) SetToBag({req})]

\* the requests of one kind that await their response
Pending(kind) == {r \in BagToSet(net) : r.kind = kind}

----------------------------------------------------------------------------
(* The methods of F1UndercutApp, as functions from world to world *)

\* showLoadingInSelect(selectId): the only caller passes 'eventSelect'
showLoadingInSelect(select) ==
    [select EXCEPT !.placeholder = "Loading...", !.options = {},
                   !.value = "", !.disabled = TRUE]

\* showLoadingInPanel(panelId): the only callers pass 'standingsList'
showLoadingInPanel(panel) ==
    [panel EXCEPT !.rows = <<>>, !.selected = {},
                  !.overlay = TRUE, !.spinner = TRUE]

\* hideLoadingInPanel(panelId)
hideLoadingInPanel(panel) ==
    [panel EXCEPT !.overlay = FALSE, !.spinner = FALSE]

\* showError(message) without the removal of the existing messages
showErrorStacking(w, message) ==
    [w EXCEPT !.dom.errors = <<message>> \o @,
              !.timers = Append(@, [attached |-> TRUE, due |-> ErrorDelay])]

\* showError(message): every .error-message element is removed, which leaves
\* the pending timers of those elements with a detached errorDiv; the new
\* element is inserted and gets a timer of its own
showError(w, message) ==
    [w EXCEPT !.dom.errors = <<message>>,
              !.timers = Append([i \in DOMAIN w.timers |->
                                    [w.timers[i] EXCEPT !.attached = FALSE]],
                                [attached |-> TRUE, due |-> ErrorDelay])]

\* the timer queue without its i-th entry
WithoutTimer(queue, i) ==
    [j \in 1 .. Len(queue) - 1 |-> IF j < i THEN queue[j] ELSE queue[j + 1]]

\* the callback of showError without its errorDiv.parentNode test: it removes
\* whatever message is shown
errorTimeoutRemovesAny(w, i) ==
    [w EXCEPT !.dom.errors = <<>>, !.timers = WithoutTimer(@, i)]

\* the callback showError hands to setTimeout, for the i-th pending timer;
\* `attached` tells whether the errorDiv of its closure is still in the
\* document (errorDiv.parentNode), and then it is the only message shown
errorTimeout(w, i) ==
    IF w.timers[i].attached
    THEN [w EXCEPT !.dom.errors = <<>>, !.timers = WithoutTimer(@, i)]
    ELSE [w EXCEPT !.timers = WithoutTimer(@, i)]

\* clearSelections()
clearSelections(w) ==
    [w EXCEPT !.app.currentLap = NoLap,
              !.app.chaserDriver = NULL,
              !.app.defenderDriver = NULL,
              !.dom.lapSlider = [SetSliderValue(@, 1) EXCEPT !.disabled = TRUE],
              !.dom.chaserSelect = [SetSelectValue(@, "") EXCEPT !.disabled = TRUE],
              !.dom.defenderSelect = [SetSelectValue(@, "") EXCEPT !.disabled = TRUE],
              !.dom.predictionResult.visible = FALSE,
              !.dom.standingsList.rows = <<>>,
              !.dom.standingsList.selected = {},
              !.dom.standingsList.spinner = FALSE]

\* updateStandingsList()
updateStandingsList(w) ==
    IF Len(w.app.standings) = 0
    THEN [w EXCEPT !.dom.standingsList.rows = <<>>,
                   !.dom.standingsList.selected = {},
                   !.dom.standingsList.spinner = FALSE]
    ELSE [w EXCEPT !.dom.standingsList.rows = w.app.standings,
                   !.dom.standingsList.selected =
                       {d \in Range(w.app.standings) :
                           d = w.app.chaserDriver \/ d = w.app.defenderDriver},
                   !.dom.standingsList.spinner = FALSE]

\* one of the two pick-lists as updateDriverSelects() leaves it, `driver`
\* being the session's chaser or defender
DriverSelect(standings, driver) ==
    LET emptied == [options |-> {}, value |-> "", disabled |-> TRUE] IN
    IF Len(standings) = 0
    THEN emptied
    ELSE LET filled == [emptied EXCEPT !.options = Range(standings),
                                       !.disabled = FALSE]
         IN IF Truthy(driver) THEN SetSelectValue(filled, driver) ELSE filled

\* updateDriverSelects()
updateDriverSelects(w) ==
    IF Len(w.app.standings) = 0
    THEN [w EXCEPT !.dom.chaserSelect = [@ EXCEPT !.options = {}, !.value = "",
                                                  !.disabled = TRUE],
                   !.dom.defenderSelect = [@ EXCEPT !.options = {}, !.value = "",
                                                    !.disabled = TRUE]]
    ELSE [w EXCEPT !.dom.chaserSelect =
                       DriverSelect(w.app.standings, w.app.chaserDriver),
                   !.dom.defenderSelect =
                       DriverSelect(w.app.standings, w.app.defenderDriver)]

\* updateSelectedDrivers()
updateSelectedDrivers(w) ==
    LET w1 == updateStandingsList(w) IN
    [w1 EXCEPT !.dom.predictBtn.disabled =
                   ~(Truthy(w1.app.chaserDriver) /\ Truthy(w1.app.defenderDriver))]

\* selectDriver(driver) with a third branch that overwrites the chaser
selectDriverOverwritesChaser(w, driver) ==
    LET w1 ==
        IF ~Truthy(w.app.chaserDriver)
        THEN [w EXCEPT !.app.chaserDriver = driver,
                       !.dom.chaserSelect = SetSelectValue(@, driver)]
        ELSE IF ~Truthy(w.app.defenderDriver)
        THEN [w EXCEPT !.app.defenderDriver = driver,
                       !.dom.defenderSelect = SetSelectValue(@, driver)]
        ELSE [w EXCEPT !.app.chaserDriver = driver,
                       !.dom.chaserSelect = SetSelectValue(@, driver)]
    IN updateSelectedDrivers(w1)

\* selectDriver(driver)
selectDriver(w, driver) ==
    LET w1 ==
        IF ~Truthy(w.app.chaserDriver)
        THEN [w EXCEPT !.app.chaserDriver = driver,
                       !.dom.chaserSelect = SetSelectValue(@, driver)]
        ELSE IF ~Truthy(w.app.defenderDriver)
        THEN [w EXCEPT !.app.defenderDriver = driver,
                       !.dom.defenderSelect = SetSelectValue(@, driver)]
        ELSE [w EXCEPT !.app.defenderDriver = driver,
                       !.dom.defenderSelect = SetSelectValue(@, driver)]
    IN updateSelectedDrivers(w1)

\* showLoading()
showLoading(btn) == [btn EXCEPT !.loading = TRUE, !.disabled = TRUE]

\* hideLoading()
hideLoading(btn) == [btn EXCEPT !.loading = FALSE, !.disabled = FALSE]

\* validateSelection() without its third check
validateSelectionSameDriver(a) ==
    IF ~Truthy(a.currentYear) \/ ~Truthy(a.currentRound) \/ ~TruthyLap(a.currentLap)
    THEN "Please select year, race, and lap"
    ELSE IF ~Truthy(a.chaserDriver) \/ ~Truthy(a.defenderDriver)
    THEN "Please select both chaser and defender drivers"
    ELSE ""

\* validateSelection() with its second and third check in the other order
validateSelectionReordered(a) ==
    IF ~Truthy(a.currentYear) \/ ~Truthy(a.currentRound) \/ ~TruthyLap(a.currentLap)
    THEN "Please select year, race, and lap"
    ELSE IF a.chaserDriver = a.defenderDriver
    THEN "Chaser and defender must be different drivers"
    ELSE IF ~Truthy(a.chaserDriver) \/ ~Truthy(a.defenderDriver)
    THEN "Please select both chaser and defender drivers"
    ELSE ""

\* validateSelection(): the message of the first failing check, "" when the
\* method returns true
validateSelection(a) ==
    IF ~Truthy(a.currentYear) \/ ~Truthy(a.currentRound) \/ ~TruthyLap(a.currentLap)
    THEN "Please select year, race, and lap"
    ELSE IF ~Truthy(a.chaserDriver) \/ ~Truthy(a.defenderDriver)
    THEN "Please select both chaser and defender drivers"
    ELSE IF a.chaserDriver = a.defenderDriver
    THEN "Chaser and defender must be different drivers"
    ELSE ""

\* displayPrediction(data): shows the result element, then reads data.success,
\* which throws when the body was null
displayPrediction(w, req) ==
    [w EXCEPT !.dom.predictionResult.visible = TRUE]

----------------------------------------------------------------------------
(* The three loaders and the prediction request: the part of each method   *)
(* before its await, and the part that runs when the response is there     *)

\* loadEvents(year), up to `await fetch`
loadEvents(w, year) ==
    fetch([w EXCEPT !.dom.eventSelect = showLoadingInSelect(@)],
          Req("events", year, NULL, NoLap, NULL, NULL))

\* loadLaps(year, round), up to `await fetch`
loadLaps(w, year, round) ==
    fetch([w EXCEPT !.dom.standingsList = showLoadingInPanel(@)],
          Req("laps", year, round, NoLap, NULL, NULL))

\* loadStandings(year, round, lap), up to `await fetch`
loadStandings(w, year, round, lap) ==
    fetch([w EXCEPT !.dom.standingsList = showLoadingInPanel(@)],
          Req("standings", year, round, lap, NULL, NULL))

\* loadEvents, from the response on
loadEventsResume(w, resp) ==
    IF resp.status = "reject"
    THEN showError(w, "Failed to load races")
    ELSE LET w1 == [w EXCEPT !.dom.eventSelect.placeholder = "Select Race",
                             !.dom.eventSelect.options = {},
                             !.dom.eventSelect.value = ""]
         IN IF resp.status = "null"
            THEN showError(w1, "Failed to load races")
            ELSE IF resp.status = "ok" /\ Len(resp.events) > 0
                 THEN clearSelections(
                        [w1 EXCEPT !.dom.eventSelect.options = Range(resp.events),
                                   !.dom.eventSelect.disabled = FALSE])
                 ELSE clearSelections(showError(w1, "No races found for this year"))

\* data.laps.filter(lap => lap >= 1)
validLaps(laps) == SelectSeq(laps, LAMBDA lap : lap >= 1)

\* loadLaps(year, round), from the response on
loadLapsResume(w, year, round, resp) ==
    IF resp.status = "reject"
    THEN showError([w EXCEPT !.dom.standingsList = hideLoadingInPanel(@)],
                   "Failed to load lap data")
    ELSE LET w1 == [w EXCEPT !.dom.standingsList = hideLoadingInPanel(@)] IN
         IF resp.status = "null"
         THEN showError([w1 EXCEPT !.dom.standingsList = hideLoadingInPanel(@)],
                        "Failed to load lap data")
         ELSE IF resp.status = "ok" /\ Len(resp.laps) > 0
         THEN IF Len(validLaps(resp.laps)) > 0
              THEN LET minLap == IF SeqMin(validLaps(resp.laps)) > 1
                                 THEN SeqMin(validLaps(resp.laps)) ELSE 1
                       maxLap == SeqMax(validLaps(resp.laps))
                       w2 == [w1 EXCEPT !.dom.lapSlider =
                                            [min |-> minLap, max |-> maxLap,
                                             value |-> minLap, disabled |-> FALSE],
                                        !.app.currentLap = minLap]
                   IN loadStandings(w2, year, round, w2.app.currentLap)
              ELSE showError(w1, "No valid lap data available (all laps are below 1)")
         ELSE showError(w1, "No pit stop data available for this race")

\* loadStandings, from the response on
loadStandingsResume(w, resp) ==
    IF resp.status = "reject"
    THEN showError([w EXCEPT !.dom.standingsList = hideLoadingInPanel(@)],
                   "Failed to load driver standings")
    ELSE LET w1 == [w EXCEPT !.dom.standingsList = hideLoadingInPanel(@)] IN
         IF resp.status = "null"
         THEN showError([w1 EXCEPT !.dom.standingsList = hideLoadingInPanel(@)],
                        "Failed to load driver standings")
         ELSE updateDriverSelects(updateStandingsList(
                [w1 EXCEPT !.app.standings =
                               IF resp.status = "ok" THEN resp.standings ELSE <<>>]))

\* predictUndercut(), up to `await fetch`
predictUndercut(w) ==
    IF validateSelection(w.app) # ""
    THEN showError(w, validateSelection(w.app))
    ELSE fetch([w EXCEPT !.dom.predictBtn = showLoading(@)],
               Req("predict", w.app.currentYear, w.app.currentRound,
                   w.app.currentLap, w.app.chaserDriver, w.app.defenderDriver))

\* the catch block of predictUndercut without its hideLoading()
predictCatchStaysBusy(w) ==
    showError(w, "Failed to get prediction")

\* the catch block of predictUndercut
predictCatch(w) ==
    showError([w EXCEPT !.dom.predictBtn = hideLoading(@)],
              "Failed to get prediction")

\* predictUndercut(), from the response on
predictUndercutResume(w, req, resp) ==
    IF resp.status = "reject"
    THEN predictCatch(w)
    ELSE LET w1 == [w EXCEPT !.dom.predictBtn = hideLoading(@)] IN
         IF resp.ok
         THEN IF resp.data = "null"
              THEN predictCatch([w1 EXCEPT !.dom.predictionResult.visible = TRUE])
              ELSE displayPrediction(w1, req)
         ELSE IF resp.data = "null"
              THEN predictCatch(w1)
              ELSE showError(w1, IF resp.data = "error"
                                 THEN "server error text" ELSE "Prediction failed")

----------------------------------------------------------------------------
(* The listeners bindEvents() registers.  The browser has already put the  *)
(* chosen value into the control when the listener runs.                   *)

\* yearSelect 'change'
yearSelectChange(w, value) ==
    LET w1 == [w EXCEPT !.app.currentYear = value] IN
    IF Truthy(w1.app.currentYear)
    THEN loadEvents(w1, w1.app.currentYear)
    ELSE w1

\* eventSelect 'change'
eventSelectChange(w, value) ==
    LET w1 == [w EXCEPT !.dom.eventSelect.value = value,
                        !.app.currentRound = value] IN
    IF Truthy(w1.app.currentYear) /\ Truthy(w1.app.currentRound)
    THEN loadLaps(w1, w1.app.currentYear, w1.app.currentRound)
    ELSE w1

\* lapSlider 'input'
lapSliderInput(w, value) ==
    LET w1 == [w EXCEPT !.dom.lapSlider.value = value,
                        !.app.currentLap = value] IN
    IF Truthy(w1.app.currentYear) /\ Truthy(w1.app.currentRound)
       /\ TruthyLap(w1.app.currentLap)
    THEN loadStandings(w1, w1.app.currentYear, w1.app.currentRound,
                       w1.app.currentLap)
    ELSE w1

\* a chaserSelect listener that reloads the standings as the lap slider does
chaserSelectChangeCascades(w, value) ==
    LET w1 == updateSelectedDrivers([w EXCEPT !.dom.chaserSelect.value = value,
                                              !.app.chaserDriver = value])
    IN loadStandings(w1, w1.app.currentYear, w1.app.currentRound,
                     w1.app.currentLap)

\* chaserSelect 'change'
chaserSelectChange(w, value) ==
    updateSelectedDrivers([w EXCEPT !.dom.chaserSelect.value = value,
                                    !.app.chaserDriver = value])

\* defenderSelect 'change'
defenderSelectChange(w, value) ==
    updateSelectedDrivers([w EXCEPT !.dom.defenderSelect.value = value,
                                    !.app.defenderDriver = value])

----------------------------------------------------------------------------
(* The state machine *)

\* the fields the constructor sets
InitApp ==
    [currentYear |-> NULL, currentRound |-> NULL, currentLap |-> NoLap,
     chaserDriver |-> NULL, defenderDriver |-> NULL, standings |-> <<>>]

\* the page as it is served: nothing chosen, every dependent control
\* disabled, no result and no error shown
InitDom ==
    [eventSelect |-> [placeholder |-> "Select Race", options |-> {},
                      value |-> "", disabled |-> TRUE],
     lapSlider |-> [min |-> 1, max |-> 1, value |-> 1, disabled |-> TRUE],
     standingsList |-> [rows |-> <<>>, selected |-> {},
                        overlay |-> FALSE, spinner |-> FALSE],
     chaserSelect |-> [options |-> {}, value |-> "", disabled |-> TRUE],
     defenderSelect |-> [options |-> {}, value |-> "", disabled |-> TRUE],
     predictBtn |-> [disabled |-> TRUE, loading |-> FALSE],
     predictionResult |-> [visible |-> FALSE],
     errors |-> <<>>]

Init ==
    /\ app = InitApp
    /\ dom = InitDom
    /\ net = EmptyBag
    /\ timers = <<>>

\* one run of a listener or continuation, from World to w2
Step(w2) ==
    /\ app' = w2.app
    /\ dom' = w2.dom
    /\ net' = w2.net
    /\ timers' = w2.timers

\* World once the response to req has been taken off the wire
Settled(req) == [World EXCEPT !.net = @ (-) SetToBag({req})]

YearChange ==
    \E value \in YearOptions :
        /\ value # (IF app.currentYear = NULL THEN "" ELSE app.currentYear)
        /\ Step(yearSelectChange(World, value))

EventChange ==
    \E value \in dom.eventSelect.options \cup {""} :
        /\ ~dom.eventSelect.disabled
        /\ value # dom.eventSelect.value
        /\ Step(eventSelectChange(World, value))

LapInput ==
    \E value \in dom.lapSlider.min .. dom.lapSlider.max :
        /\ ~dom.lapSlider.disabled
        /\ value # dom.lapSlider.value
        /\ Step(lapSliderInput(World, value))

ChaserChange ==
    \E value \in dom.chaserSelect.options \cup {""} :
        /\ ~dom.chaserSelect.disabled
        /\ value # dom.chaserSelect.value
        /\ Step(chaserSelectChange(World, value))

DefenderChange ==
    \E value \in dom.defenderSelect.options \cup {""} :
        /\ ~dom.defenderSelect.disabled
        /\ value # dom.defenderSelect.value
        /\ Step(defenderSelectChange(World, value))

\* a click on a row of the standings list
StandingClick ==
    \E driver \in Range(dom.standingsList.rows) :
        Step(selectDriver(World, driver))

\* a click on the predict button
PredictClick ==
    /\ ~dom.predictBtn.disabled
    /\ Step(predictUndercut(World))

EventsSettle ==
    \E req \in Pending("events") : \E resp \in EventsResponses :
        Step(loadEventsResume(Settled(req), resp))

LapsSettle ==
    \E req \in Pending("laps") : \E resp \in LapsResponses :
        Step(loadLapsResume(Settled(req), req.year, req.round, resp))

StandingsSettle ==
    \E req \in Pending("standings") : \E resp \in StandingsResponses(req) :
        Step(loadStandingsResume(Settled(req), resp))

PredictSettle ==
    \E req \in Pending("predict") : \E resp \in PredictResponses :
        Step(predictUndercutResume(Settled(req), req, resp))

\* a timer of showError expires; how long the other steps take is left open,
\* so any pending timer may be the one
ErrorTimeout ==
    \E i \in DOMAIN timers :
        Step(errorTimeout(World, i))

\* a timer of showError expires, with the time counted by Tick: its delay has
\* elapsed
ErrorTimeoutDue ==
    \E i \in DOMAIN timers :
        /\ timers[i].due = 0
        /\ Step(errorTimeout(World, i))

\* one unit of time passes; a timer that is due runs before more time passes
Tick ==
    /\ timers # <<>>
    /\ \A i \in DOMAIN timers : timers[i].due > 0
    /\ timers' = [i \in DOMAIN timers |-> [timers[i] EXCEPT !.due = @ - 1]]
    /\ UNCHANGED <<app, dom, net>>

\* every request has been answered
Idle == net = EmptyBag

\* the step ends with at most n requests awaiting a response
InFlightWithin(n) == BagCardinality(net') <= n

\* the step ends with at most t pending timers
TimersWithin(t) == Len(timers') <= t

\* a gesture of a user who waits for the response the last gesture asked for
Patient(Gesture) == Idle /\ Gesture /\ TimersWithin(MaxTimers)

\* a response or a timer, in a run of the patient user
Then(Callback) == Callback /\ TimersWithin(MaxTimers)

\* The whole page with a user who waits for the response a gesture asked
\* for before the next gesture, so that no two requests overlap.
Next ==
    \/ Patient(YearChange)
    \/ Patient(EventChange)
    \/ Patient(LapInput)
    \/ Patient(ChaserChange)
    \/ Patient(DefenderChange)
    \/ Patient(StandingClick)
    \/ Patient(PredictClick)
    \/ Then(EventsSettle)
    \/ Then(LapsSettle)
    \/ Then(StandingsSettle)
    \/ Then(PredictSettle)
    \/ Then(ErrorTimeout)

Spec == Init /\ [][Next]_vars

\* a step of a run in which requests overlap
Racing(A) ==
    A /\ InFlightWithin(MaxInFlight) /\ TimersWithin(MaxRaceTimers)

\* The selection cascade and the three loaders with a user who does not
\* wait: gestures and responses interleave freely, responses arrive in any
\* order.
NextRace ==
    \/ Racing(YearChange)
    \/ Racing(EventChange)
    \/ Racing(LapInput)
    \/ Racing(ChaserChange)
    \/ Racing(DefenderChange)
    \/ Racing(StandingClick)
    \/ Racing(EventsSettle)
    \/ Racing(LapsSettle)
    \/ Racing(StandingsSettle)
    \/ Racing(ErrorTimeout)

SpecRace == Init /\ [][NextRace]_vars

\* no loader awaits a response (a prediction may)
LoadersIdle ==
    Pending("events") \cup Pending("laps") \cup Pending("standings") = {}

\* the step ends with at most n prediction requests awaiting a response
PredictsWithin(n) ==
    BagCardinality(net') <= n

\* a gesture of a user who waits for the loaders but not for a prediction
Eager(Gesture) ==
    /\ LoadersIdle
    /\ Gesture
    /\ PredictsWithin(MaxPredicts) /\ TimersWithin(MaxTimers)

\* The whole page with a user who goes on choosing drivers and clicking the
\* predict button while a prediction is awaited, and waits for everything
\* before choosing another year, race or lap.
NextEager ==
    \/ Patient(YearChange)
    \/ Patient(EventChange)
    \/ Patient(LapInput)
    \/ Eager(ChaserChange)
    \/ Eager(DefenderChange)
    \/ Eager(StandingClick)
    \/ Eager(PredictClick)
    \/ Then(EventsSettle)
    \/ Then(LapsSettle)
    \/ Then(StandingsSettle)
    \/ Then(PredictSettle)
    \/ Then(ErrorTimeout)

SpecEager == Init /\ [][NextEager]_vars

\* The year and race cascade of the patient user with the clock of the error
\* timers: the gestures and responses happen at any time, a timer runs when
\* its delay has elapsed.
NextTimed ==
    \/ Patient(YearChange)
    \/ Patient(EventChange)
    \/ Then(EventsSettle)
    \/ Then(LapsSettle)
    \/ Then(StandingsSettle)
    \/ Then(ErrorTimeoutDue)
    \/ Tick

SpecTimed == Init /\ [][NextTimed]_vars

----------------------------------------------------------------------------
(* Vocabulary of the properties *)

\* this step sends the request r
SentReq(r) == CopiesIn(r, net') > CopiesIn(r, net)

\* this step sends a request of this kind
Sent(kind) == \E r \in BagToSet(net') : r.kind = kind /\ SentReq(r)

\* this step is the arrival of the response to r
AnsweredReq(r) == CopiesIn(r, net') < CopiesIn(r, net)

\* this step is the arrival of a response to a request of this kind
Answered(kind) == \E r \in BagToSet(net) : r.kind = kind /\ AnsweredReq(r)

\* chaser and defender are both unset
NoDrivers(a) == ~Truthy(a.chaserDriver) /\ ~Truthy(a.defenderDriver)

\* the responses with which a loader ends in its catch block
Failing(responses) == {resp \in responses : resp.status \in {"reject", "null"}}

\* the validation gate of section 4.4: the selection is complete and legal
ValidSelection(a) ==
    /\ Truthy(a.currentYear) /\ Truthy(a.currentRound) /\ TruthyLap(a.currentLap)
    /\ Truthy(a.chaserDriver) /\ Truthy(a.defenderDriver)
    /\ a.chaserDriver # a.defenderDriver

----------------------------------------------------------------------------
(* C1..C10 *)

\* C1: whenever a fetch is issued its upstream session fields are set at that
\* moment: a laps fetch only while currentYear is non-empty, a standings
\* fetch (the one loadLaps issues from its continuation included) only while
\* currentYear and currentRound are both non-empty.
C1_FetchHasUpstream ==
    [][\A r \in BagToSet(net') :
          SentReq(r) =>
             /\ r.kind = "laps" => Truthy(app'.currentYear)
             /\ r.kind = "standings" =>
                    Truthy(app'.currentYear) /\ Truthy(app'.currentRound)]_vars

\* C2: a standings response for lap L1 that arrives when the selected lap is
\* another lap L2 of the same race does not overwrite the stored standings.
C2_StaleStandingsDiscarded ==
    [][\A r \in BagToSet(net) :
          /\ r.kind = "standings" /\ AnsweredReq(r)
          /\ r.year = app.currentYear /\ r.round = app.currentRound
          /\ TruthyLap(app.currentLap) /\ r.lap # app.currentLap
          => app'.standings = app.standings]_vars

\* C3: when the events fetch a year change started settles, whatever its
\* outcome, round, lap, chaser and defender are unset, the stored standings
\* are empty and the prediction result is hidden.
C3_YearChangeClears ==
    [][Answered("events") =>
          /\ ~Truthy(app'.currentRound)
          /\ ~TruthyLap(app'.currentLap)
          /\ NoDrivers(app')
          /\ app'.standings = <<>>
          /\ ~dom'.predictionResult.visible]_vars

\* C4: a race change clears lap, chaser, defender, standings and the
\* prediction result, and issues the laps fetch for the new race.
C4_RaceChangeClears ==
    [][app'.currentRound # app.currentRound =>
          /\ ~TruthyLap(app'.currentLap)
          /\ NoDrivers(app')
          /\ app'.standings = <<>>
          /\ ~dom'.predictionResult.visible
          /\ Truthy(app'.currentYear) /\ Truthy(app'.currentRound) =>
                 SentReq(Req("laps", app'.currentYear, app'.currentRound,
                             NoLap, NULL, NULL))]_vars

\* C5: a lap change (the slider, not the default lap loadLaps sets) clears
\* chaser, defender and the prediction result, and issues the standings fetch
\* for the new lap.
C5_LapChangeClears ==
    [][/\ app'.currentLap # app.currentLap
       /\ TruthyLap(app'.currentLap)
       /\ ~Answered("laps")
       => /\ NoDrivers(app')
          /\ ~dom'.predictionResult.visible
          /\ Truthy(app'.currentYear) /\ Truthy(app'.currentRound) =>
                 SentReq(Req("standings", app'.currentYear, app'.currentRound,
                             app'.currentLap, NULL, NULL))]_vars

\* C6: a prediction request is sent only with year, round and lap set, chaser
\* and defender set and different, and carries exactly that selection; with
\* an incomplete or illegal selection predictUndercut sends no request.
C6_PredictOnlyWhenValid ==
    [][/\ \A r \in BagToSet(net') :
             r.kind = "predict" /\ SentReq(r) =>
                /\ ValidSelection(app)
                /\ r = Req("predict", app.currentYear, app.currentRound,
                           app.currentLap, app.chaserDriver, app.defenderDriver)
       /\ ~ValidSelection(app) => predictUndercut(World).net = net]_vars

\* a prediction request is on its way
C6_Witness == Pending("predict") # {}

\* C7: once a prediction request has settled, whatever the outcome, the
\* predict button is not marked loading.
C7_NotBusyAfterSettle ==
    [][Answered("predict") => ~dom'.predictBtn.loading]_vars

\* a prediction request has settled (nothing else shows the result), and the
\* button is idle
C7_Witness ==
    /\ dom.predictionResult.visible
    /\ Pending("predict") = {}
    /\ ~dom.predictBtn.loading

\* C8: when the request of a loader settles, the loading indicator it set is
\* cleared: the race selector is not left disabled with 'Loading...', the
\* standings panel is not left with its overlay (unless loadLaps has just
\* started loadStandings, which sets it anew).
C8_LoadingCleared ==
    [][/\ Answered("events") =>
              ~(dom'.eventSelect.disabled
                /\ dom'.eventSelect.placeholder = "Loading...")
       /\ Answered("laps") /\ ~Sent("standings") => ~dom'.standingsList.overlay
       /\ Answered("standings") => ~dom'.standingsList.overlay]_vars

\* C9: whenever a loader ends in its catch block, the session fields
\* downstream of it are unset: standings, chaser and defender for
\* loadStandings, lap too for loadLaps, round too for loadEvents.
C9_FailedFetchClears ==
    \A r \in BagToSet(net) :
        /\ r.kind = "standings" =>
              \A resp \in Failing(StandingsResponses(r)) :
                 LET a == loadStandingsResume(Settled(r), resp).app IN
                 a.standings = <<>> /\ NoDrivers(a)
        /\ r.kind = "laps" =>
              \A resp \in Failing(LapsResponses) :
                 LET a == loadLapsResume(Settled(r), r.year, r.round, resp).app IN
                 a.standings = <<>> /\ NoDrivers(a) /\ ~TruthyLap(a.currentLap)
        /\ r.kind = "events" =>
              \A resp \in Failing(EventsResponses) :
                 LET a == loadEventsResume(Settled(r), resp).app IN
                 /\ a.standings = <<>> /\ NoDrivers(a)
                 /\ ~TruthyLap(a.currentLap) /\ ~Truthy(a.currentRound)

\* C10: whenever loadLaps receives a non-empty lap list with every value
\* below 1, it shows the 'No valid lap data' error, the lap slider is disabled
\* afterwards and no standings fetch is sent.
C10_InvalidLapsDisableSlider ==
    \A r \in Pending("laps") :
        \A resp \in {x \in LapsResponses :
                        /\ x.status = "ok" /\ Len(x.laps) > 0
                        /\ \A i \in DOMAIN x.laps : x.laps[i] < 1} :
            LET w2 == loadLapsResume(Settled(r), r.year, r.round, resp) IN
            /\ w2.dom.errors =
                   <<"No valid lap data available (all laps are below 1)">>
            /\ w2.dom.lapSlider.disabled
            /\ w2.net = Settled(r).net

----------------------------------------------------------------------------
(* C11..C20 *)

\* C11: a click on a standings row sets the chaser to the clicked driver and
\* leaves the defender alone when no chaser is assigned; otherwise it sets the
\* defender to the clicked driver and leaves the chaser alone.  So with both
\* slots filled no click changes the chaser, nor does a second click after it.
C11_ClickAssignPolicy ==
    \A d \in Range(dom.standingsList.rows) :
        LET a2 == selectDriver(World, d).app IN
        /\ IF ~Truthy(app.chaserDriver)
           THEN a2.chaserDriver = d /\ a2.defenderDriver = app.defenderDriver
           ELSE a2.defenderDriver = d /\ a2.chaserDriver = app.chaserDriver
        /\ Truthy(app.chaserDriver) /\ Truthy(app.defenderDriver) =>
              \A e \in Range(selectDriver(World, d).dom.standingsList.rows) :
                  selectDriver(selectDriver(World, d), e).app.chaserDriver
                      = app.chaserDriver

\* both slots are filled with different drivers and a row other than the
\* defender's can be clicked
C11_Witness ==
    /\ Truthy(app.chaserDriver) /\ Truthy(app.defenderDriver)
    /\ app.chaserDriver # app.defenderDriver
    /\ Range(dom.standingsList.rows) \ {app.defenderDriver} # {}

\* lap lists with at least one lap >= 1: sorted and unsorted, with and
\* without laps below 1, with gaps, with a single lap
C12_LapLists ==
    { <<-2, -1, 0, 1, 3, 5>>, <<-1, 0, 1, 2>>, <<2>>, <<3, 1, 2>>,
      <<4, 0, 2>>, <<1>>, <<0, 7, 3, 3>> }

\* C12: for every lap list with at least one value >= 1, the continuation of
\* loadLaps sets the slider range to [smallest value >= 1, largest value],
\* makes that smallest value the slider value and the active lap, enables the
\* slider and sends exactly one request: the standings of that lap for the
\* year and round of the call.
C12_LoadLapsDefaults ==
    \A r \in Pending("laps") : \A laps \in C12_LapLists :
        LET valid == {l \in Range(laps) : l >= 1}
            lo == CHOOSE l \in valid : \A k \in valid : l <= k
            hi == CHOOSE l \in Range(laps) : \A k \in Range(laps) : l >= k
            w2 == loadLapsResume(Settled(r), r.year, r.round,
                                 [status |-> "ok", laps |-> laps])
        IN /\ w2.dom.lapSlider =
                  [min |-> lo, max |-> hi, value |-> lo, disabled |-> FALSE]
           /\ w2.app.currentLap = lo
           /\ w2.net = Settled(r).net
                         (+) SetToBag({Req("standings", r.year, r.round, lo,
                                           NULL, NULL)})

\* loadLaps has answered a list whose only valid lap is 2: the slider is
\* enabled on [2, 2] and the standings of lap 2 are being fetched
C12_Witness ==
    /\ dom.lapSlider = [min |-> 2, max |-> 2, value |-> 2, disabled |-> FALSE]
    /\ app.currentLap = 2
    /\ \E r \in Pending("standings") : r.lap = 2

\* C13: at most one error message is visible in every reachable state: a new
\* error, whichever handler shows it, replaces the one that is visible.
C13_OneErrorVisible == Len(dom.errors) <= 1

\* an error is visible that was shown while an earlier one was still visible
\* (the timer of the earlier one is pending, its element detached)
C13_Witness ==
    /\ Len(dom.errors) = 1
    /\ Len(timers) > 1
    /\ timers[Len(timers)].attached
    /\ \E i \in DOMAIN timers : ~timers[i].attached

\* the timer of the error that is visible, 0 if there is none
VisibleTimer ==
    IF \E i \in DOMAIN timers : timers[i].attached
    THEN CHOOSE i \in DOMAIN timers : timers[i].attached
    ELSE 0

\* C14: a visible error has a timer of its own that runs ErrorDelay units
\* after it was shown; the error disappears only when that timer runs or when
\* a new error supersedes it, and the timer of a superseded error removes
\* nothing when it runs.
C14_ErrorExpiry ==
    [][/\ \* the visible error and its timer, not older than the delay
          /\ dom.errors # <<>> <=> VisibleTimer # 0
          /\ \A i \in DOMAIN timers : timers[i].due \in 0 .. ErrorDelay
       /\ \* a timer runs: only when due, and it removes its own error only
          Len(timers') < Len(timers) =>
             \E i \in DOMAIN timers :
                /\ timers[i].due = 0
                /\ timers' = WithoutTimer(timers, i)
                /\ dom'.errors = IF timers[i].attached THEN <<>> ELSE dom.errors
       /\ \* an error is shown: its timer starts with the whole delay
          Len(timers') > Len(timers) =>
             /\ Len(dom'.errors) = 1
             /\ timers'[Len(timers')] = [attached |-> TRUE, due |-> ErrorDelay]
       /\ \* any other step leaves the visible error alone
          Len(timers') = Len(timers) => dom'.errors = dom.errors]_vars

\* the timer of a superseded error is due while the newer error is visible
C14_Witness ==
    /\ dom.errors # <<>>
    /\ \E i \in DOMAIN timers : ~timers[i].attached /\ timers[i].due = 0
    /\ \E i \in DOMAIN timers : timers[i].attached /\ timers[i].due > 0

\* C15: with a selection that fails the validation gate, predictUndercut
\* shows the message of the first failing check, in the order year/round/lap,
\* then both drivers, then different drivers, and changes neither the six
\* session fields nor the predict button, and sends nothing.
C15_RejectedAttempt ==
    ~ValidSelection(app) =>
        LET w2 == predictUndercut(World) IN
        /\ w2.dom.errors =
              << IF ~(Truthy(app.currentYear) /\ Truthy(app.currentRound)
                      /\ TruthyLap(app.currentLap))
                 THEN "Please select year, race, and lap"
                 ELSE IF ~(Truthy(app.chaserDriver) /\ Truthy(app.defenderDriver))
                 THEN "Please select both chaser and defender drivers"
                 ELSE "Chaser and defender must be different drivers" >>
        /\ w2.app = app
        /\ w2.net = net
        /\ w2.dom.predictBtn = dom.predictBtn
        /\ ~w2.dom.predictBtn.loading

\* an attempt has been rejected by the second check, with the button idle
C15_Witness ==
    /\ dom.errors = <<"Please select both chaser and defender drivers">>
    /\ ~dom.predictBtn.loading
    /\ Pending("predict") = {}

\* an attempt has been rejected by the first check
C15_WitnessFirst == dom.errors = <<"Please select year, race, and lap">>

\* an attempt has been rejected by the third check
C15_WitnessThird ==
    dom.errors = <<"Chaser and defender must be different drivers">>

\* what a driver change may not touch: the requests in flight, year, round,
\* lap and the stored standings, and on the page everything but the two
\* pick-lists, the standings panel and the predict button's disabled flag
NoCascade(w2) ==
    /\ w2.net = net
    /\ w2.timers = timers
    /\ w2.app.currentYear = app.currentYear
    /\ w2.app.currentRound = app.currentRound
    /\ w2.app.currentLap = app.currentLap
    /\ w2.app.standings = app.standings
    /\ w2.dom.eventSelect = dom.eventSelect
    /\ w2.dom.lapSlider = dom.lapSlider
    /\ w2.dom.predictionResult = dom.predictionResult
    /\ w2.dom.errors = dom.errors
    /\ w2.dom.predictBtn.loading = dom.predictBtn.loading
    /\ w2.dom.chaserSelect.options = dom.chaserSelect.options
    /\ w2.dom.defenderSelect.options = dom.defenderSelect.options
    /\ w2.dom.chaserSelect.disabled = dom.chaserSelect.disabled
    /\ w2.dom.defenderSelect.disabled = dom.defenderSelect.disabled
    \* the panel is rendered from the stored standings, the rows of the two
    \* assigned drivers highlighted
    /\ w2.dom.standingsList.rows = app.standings
    /\ w2.dom.standingsList.overlay = dom.standingsList.overlay
    /\ w2.dom.standingsList.selected =
          {d \in Range(app.standings) :
              d = w2.app.chaserDriver \/ d = w2.app.defenderDriver}
    \* the button is enabled exactly when both slots are filled
    /\ w2.dom.predictBtn.disabled =
          ~(Truthy(w2.app.chaserDriver) /\ Truthy(w2.app.defenderDriver))

PredictsInFlight ==
    BagCardinality([r \in Pending("predict") |-> CopiesIn(r, net)])

\* C17: while a prediction request is in flight the predict button is
\* disabled, whatever happens in between, and so at most one prediction
\* request is in flight at any time.
C17_OnePredictionInFlight ==
    /\ Pending("predict") # {} => dom.predictBtn.disabled
    /\ PredictsInFlight <= 1

\* the five selections a prediction is computed for
Selection(a) ==
    <<a.currentYear, a.currentRound, a.currentLap, a.chaserDriver,
      a.defenderDriver>>

\* C18: a visible prediction result belongs to the current selection: the
\* response to a request whose selection is no longer the current one is not
\* displayed, and a change of year, round, lap, chaser or defender hides the
\* result that is displayed.
C18_ResultForCurrentSelection ==
    [][/\ \A r \in Pending("predict") :
             AnsweredReq(r)
             /\ <<r.year, r.round, r.lap, r.chaser, r.defender>> # Selection(app)
             => ~dom'.predictionResult.visible
       /\ dom.predictionResult.visible /\ Selection(app') # Selection(app)
             => ~dom'.predictionResult.visible]_vars

\* C19: a chaser or defender that is set is the driver of a row of the stored
\* standings, so that a prediction request sent now would name two drivers of
\* the stored standings.
C19_DriversInStandings ==
    /\ Truthy(app.chaserDriver) => app.chaserDriver \in Range(app.standings)
    /\ Truthy(app.defenderDriver) => app.defenderDriver \in Range(app.standings)
    /\ \A r \in BagToSet(predictUndercut(World).net) :
          r.kind = "predict" /\ CopiesIn(r, predictUndercut(World).net)
                                   > CopiesIn(r, net)
          => {r.chaser, r.defender} \subseteq Range(app.standings)

\* C20: with no prediction request in flight, the predict button is enabled
\* exactly when chaser and defender are both set.
C20_ButtonIffBothDrivers ==
    Pending("predict") = {} =>
        (~dom.predictBtn.disabled
            <=> Truthy(app.chaserDriver) /\ Truthy(app.defenderDriver))

====
